---------------------------- MODULE Spec2Model ----------------------------
(***************************************************************************)
(* A model of app.py of jp-tutor-ai: the knowledge-base parser and        *)
(* retriever, the model-response normaliser, the TutorTurn validator and  *)
(* the Streamlit session (history, mistake log, send and clear handlers). *)
(*                                                                         *)
(* Python strings are modelled as sequences of one-character strings, so  *)
(* that strip, split, replace, splitlines and the substring test are      *)
(* computed the way the interpreter computes them.                        *)
(***************************************************************************)
EXTENDS Integers, Sequences, FiniteSets, TLC

VARIABLES
    history,      \* st.session_state.history
    mistakes,     \* st.session_state.mistakes
    last,         \* what the last run of the script did (handler, call, outcome)
    kb_text,      \* the knowledge-base document
    kb_entries,   \* parse_kb_entries(kb_text)
    selection,    \* the last select_kb call: query, topk, result
    text,         \* resp.output_text of a model response
    normalized,   \* the text handed to json.loads
    data,         \* a parsed JSON value handed to TutorTurn.model_validate
    validated,    \* the result of TutorTurn.model_validate(data)
    pc            \* the step the pure-function specifications are at

vars == <<history, mistakes, last, kb_text, kb_entries, selection,
          text, normalized, data, validated, pc>>

---------------------------------------------------------------------------
(* Python str operations over sequences of characters.                     *)

Min(a, b) == IF a <= b THEN a ELSE b

Max(a, b) == IF a >= b THEN a ELSE b

\* The least and the greatest element of a non-empty set of integers.
least(S) == CHOOSE i \in S : \A j \in S : i <= j

greatest(S) == CHOOSE i \in S : \A j \in S : j <= i

\* The characters str.strip() removes (those the model's alphabet holds).
Whitespace == {" ", "\t", "\n", "\r"}

\* str.strip(): from the first to the last character that is not whitespace.
strip(s) ==
    LET keep == {i \in 1..Len(s) : s[i] \notin Whitespace}
    IN  IF keep = {} THEN <<>> ELSE SubSeq(s, least(keep), greatest(keep))

\* str.startswith(p)
startswith(s, p) == Len(s) >= Len(p) /\ SubSeq(s, 1, Len(p)) = p

\* t in q
contains(q, t) ==
    \E i \in 1..(Len(q) - Len(t) + 1) : SubSeq(q, i, i + Len(t) - 1) = t

\* The positions from i on where sep occurs in s.
occurrences(s, sep, i) ==
    {j \in i..(Len(s) - Len(sep) + 1) : SubSeq(s, j, j + Len(sep) - 1) = sep}

\* str.split(sep, maxsplit) of s from position start on: the pieces between
\* the occurrences of sep, taken left to right without overlap; maxsplit < 0
\* is no limit.
RECURSIVE split_from(_, _, _, _)
split_from(s, sep, maxsplit, start) ==
    LET occ == occurrences(s, sep, start)
    IN  IF maxsplit = 0 \/ occ = {}
        THEN <<SubSeq(s, start, Len(s))>>
        ELSE LET j == least(occ)
             IN  <<SubSeq(s, start, j - 1)>>
                 \o split_from(s, sep, maxsplit - 1, j + Len(sep))

\* str.split(sep)
split(s, sep) == split_from(s, sep, -1, 1)

\* str.split(sep, maxsplit)
split_max(s, sep, maxsplit) == split_from(s, sep, maxsplit, 1)

\* sep.join(parts)
RECURSIVE join(_, _)
join(sep, parts) ==
    IF parts = <<>> THEN <<>>
    ELSE IF Len(parts) = 1 THEN parts[1]
         ELSE parts[1] \o sep \o join(sep, Tail(parts))

\* str.replace(old, new): every occurrence of old, taken left to right
\* without overlap, becomes new.
replace(s, old, new) == join(new, split(s, old))

\* str.splitlines() of s from position start on: a line ends at "\n", "\r"
\* or "\r\n"; a final terminator opens no empty last line.
RECURSIVE splitlines_from(_, _)
splitlines_from(s, start) ==
    LET ends == {j \in start..Len(s) : s[j] \in {"\n", "\r"}}
    IN  IF start > Len(s) THEN <<>>
        ELSE IF ends = {} THEN <<SubSeq(s, start, Len(s))>>
        ELSE LET j == least(ends)
                 n == IF s[j] = "\r" /\ j < Len(s) /\ s[j + 1] = "\n"
                      THEN j + 2 ELSE j + 1
             IN  <<SubSeq(s, start, j - 1)>> \o splitlines_from(s, n)

splitlines(s) == splitlines_from(s, 1)

\* The concatenation of a sequence of strings.
RECURSIVE concat(_)
concat(parts) == IF parts = <<>> THEN <<>> ELSE Head(parts) \o concat(Tail(parts))

---------------------------------------------------------------------------
(* The knowledge base: parse_kb_entries and select_kb.                     *)

\* The literal "## [KB" of line.startswith("## [KB").
HeaderPrefix == <<"#", "#", " ", "[", "K", "B">>

\* The literal "## [" removed from the id.
IdPrefix == <<"#", "#", " ", "[">>

\* The literal "- triggers:" of line.startswith("- triggers:").
TriggersPrefix == <<"-", " ", "t", "r", "i", "g", "g", "e", "r", "s", ":">>

\* line.startswith("## [KB") and "]" in line
is_header(line) == startswith(line, HeaderPrefix) /\ contains(line, <<"]">>)

\* cur = {"id": kb_id, "title": title, "triggers": [], "text_lines": [line]}
new_entry(line) ==
    [id         |-> strip(replace(split(line, <<"]">>)[1], IdPrefix, <<>>)),
     title      |-> strip(split(line, <<"]">>)[2]),
     triggers   |-> <<>>,
     text_lines |-> <<line>>]

\* [t.strip() for t in trig.split(",") if t.strip()]
parse_triggers(line) ==
    LET trig  == strip(split_max(line, <<":">>, 1)[2])
        parts == split(trig, <<",">>)
        stripped == [i \in 1..Len(parts) |-> strip(parts[i])]
    IN  SelectSeq(stripped, LAMBDA t : t # <<>>)

\* The elif branch: the line joins the current entry, and a triggers line
\* replaces the entry's triggers.
add_line(e, line) ==
    [e EXCEPT !.text_lines = Append(@, line),
              !.triggers   = IF startswith(line, TriggersPrefix)
                             THEN parse_triggers(line)
                             ELSE @]

\* The for loop over kb_text.splitlines(), from line i on: entries is the
\* list built so far, cur the entry being accumulated (<<>> is None).
RECURSIVE parse_loop(_, _, _, _)
parse_loop(lines, i, entries, cur) ==
    IF i > Len(lines) THEN [entries |-> entries, cur |-> cur]
    ELSE IF is_header(lines[i])
         THEN parse_loop(lines, i + 1, entries \o cur, <<new_entry(lines[i])>>)
         ELSE IF cur # <<>>
              THEN parse_loop(lines, i + 1, entries, <<add_line(cur[1], lines[i])>>)
              ELSE parse_loop(lines, i + 1, entries, cur)

\* The text joined and not stripped.
entry_text_unstripped(text_lines) == join(<<"\n">>, text_lines)

\* e["text"] = "\n".join(e["text_lines"]).strip()
entry_text(text_lines) == strip(join(<<"\n">>, text_lines))

\* if cur: entries.append(cur)
flush(entries, cur) == entries \o cur

parse_kb_entries(doc) ==
    LET r   == parse_loop(splitlines(doc), 1, <<>>, <<>>)
        all == flush(r.entries, r.cur)
    IN  [k \in 1..Len(all) |->
            [id         |-> all[k].id,
             title      |-> all[k].title,
             triggers   |-> all[k].triggers,
             text_lines |-> all[k].text_lines,
             text       |-> entry_text(all[k].text_lines)]]

\* score += 3
ScoreStep == 3

\* The inner loop of select_kb over e.get("triggers", []).
RECURSIVE score_of(_, _)
score_of(triggers, q) ==
    IF triggers = <<>> THEN 0
    ELSE (IF Head(triggers) # <<>> /\ contains(q, Head(triggers))
          THEN ScoreStep ELSE 0) + score_of(Tail(triggers), q)

\* The outer loop: scored.append((score, e)) for every entry with score > 0.
RECURSIVE score_entries(_, _)
score_entries(entries, q) ==
    IF entries = <<>> THEN <<>>
    ELSE LET s == score_of(Head(entries).triggers, q)
         IN  (IF s > 0 THEN <<[score |-> s, e |-> Head(entries)]>> ELSE <<>>)
             \o score_entries(Tail(entries), q)

\* One element placed into a list sorted by score descending, before its
\* equals: the order of equal scores comes out reversed.
RECURSIVE insert_before_equals(_, _)
insert_before_equals(sorted, x) ==
    IF sorted = <<>> THEN <<x>>
    ELSE IF Head(sorted).score > x.score
         THEN <<Head(sorted)>> \o insert_before_equals(Tail(sorted), x)
         ELSE <<x>> \o sorted

\* One element placed into a list sorted by score descending, after its
\* equals: list.sort is stable, with reverse=True too.
RECURSIVE insert_sorted(_, _)
insert_sorted(sorted, x) ==
    IF sorted = <<>> THEN <<x>>
    ELSE IF Head(sorted).score >= x.score
         THEN <<Head(sorted)>> \o insert_sorted(Tail(sorted), x)
         ELSE <<x>> \o sorted

\* scored.sort(key=lambda x: x[0], reverse=True)
RECURSIVE sort_scored(_)
sort_scored(scored) ==
    IF scored = <<>> THEN <<>>
    ELSE insert_sorted(sort_scored(SubSeq(scored, 1, Len(scored) - 1)),
                       scored[Len(scored)])

select_kb(entries, query, topk) ==
    LET q == strip(query)
    IN  IF q = <<>> \/ entries = <<>> THEN <<>>
        ELSE LET scored == sort_scored(score_entries(entries, q))
             IN  [i \in 1..Min(topk, Len(scored)) |-> scored[i].e]

---------------------------------------------------------------------------
(* call_model's normalisation of the response text.                        *)

\* The backtick, which a TLA+ string cannot hold, as a character of its own.
Backtick == "<bt>"

\* The literal "```".
Fence == <<Backtick, Backtick, Backtick>>

\* The literal "json".
JsonTag == <<"j", "s", "o", "n">>

\* text = resp.output_text.strip(), then the handling of a ``` wrapper:
\*   parts = text.split("```")
\*   text = parts[1].replace("json", "").strip() if len(parts) >= 2 else text
normalize(output_text) ==
    LET t == strip(output_text)
    IN  IF startswith(t, Fence)
        THEN LET parts == split(t, Fence)
             IN  IF Len(parts) >= 2
                 THEN strip(replace(parts[2], JsonTag, <<>>))
                 ELSE t
        ELSE t

---------------------------------------------------------------------------
(* json.loads, for the JSON fragment the model's responses are written in: *)
(* objects, arrays, strings without escapes, integers, true, false, null.  *)
(* A parsed value is a record [t, s, n, items, keys]: t its type, s a      *)
(* string's characters, n an integer's (or boolean's) value, items an      *)
(* array's elements or an object's values, keys an object's keys.          *)

JStr(s) == [t |-> "str", s |-> s, n |-> 0, items |-> <<>>, keys |-> <<>>]

JInt(n) == [t |-> "int", s |-> <<>>, n |-> n, items |-> <<>>, keys |-> <<>>]

JBool(b) == [t |-> "bool", s |-> <<>>, n |-> IF b THEN 1 ELSE 0,
             items |-> <<>>, keys |-> <<>>]

JNull == [t |-> "null", s |-> <<>>, n |-> 0, items |-> <<>>, keys |-> <<>>]

JArr(items) == [t |-> "arr", s |-> <<>>, n |-> 0, items |-> items, keys |-> <<>>]

JObj(keys, items) ==
    [t |-> "obj", s |-> <<>>, n |-> 0, items |-> items, keys |-> keys]

\* A key a dict does not hold (dict.get's None).
JAbsent == [t |-> "absent", s |-> <<>>, n |-> 0, items |-> <<>>, keys |-> <<>>]

\* A failed parse (json.JSONDecodeError) and a successful one, ending before pos.
ParseFail == [ok |-> FALSE, val |-> JNull, pos |-> 0]

ParseOk(v, pos) == [ok |-> TRUE, val |-> v, pos |-> pos]

JsonWhitespace == {" ", "\t", "\n", "\r"}

Digits == <<"0", "1", "2", "3", "4", "5", "6", "7", "8", "9">>

DigitChars == {Digits[i] : i \in 1..Len(Digits)}

digit_value(c) == (CHOOSE i \in 1..Len(Digits) : Digits[i] = c) - 1

\* The first position from i on that holds no whitespace.
skip_ws(s, i) ==
    LET rest == {j \in i..Len(s) : s[j] \notin JsonWhitespace}
    IN  IF rest = {} THEN Max(i, Len(s) + 1) ELSE least(rest)

\* The index of the quote closing the string opened before i (0: none, or a
\* control character or an escape comes first).
string_end(s, i) ==
    LET stops == {j \in i..Len(s) : s[j] \in {"\"", "\n", "\r", "\t", "\\"}}
    IN  IF stops = {} \/ s[least(stops)] # "\"" THEN 0 ELSE least(stops)

parse_string(s, i) ==
    LET e == string_end(s, i + 1)
    IN  IF e = 0 THEN ParseFail ELSE ParseOk(JStr(SubSeq(s, i + 1, e - 1)), e + 1)

\* The end of the run of digits from i on (i - 1: none).
digits_end(s, i) ==
    LET rest == {j \in i..Len(s) : s[j] \notin DigitChars}
    IN  IF rest = {} THEN Max(i - 1, Len(s)) ELSE least(rest) - 1

\* int() of the digits s[i..j].
RECURSIVE digits_value(_, _, _)
digits_value(s, i, j) ==
    IF j < i THEN 0 ELSE 10 * digits_value(s, i, j - 1) + digit_value(s[j])

\* -?(0|[1-9][0-9]*)
parse_int(s, i) ==
    LET neg   == s[i] = "-"
        first == IF neg THEN i + 1 ELSE i
        e     == IF first <= Len(s) /\ s[first] = "0"
                 THEN first
                 ELSE digits_end(s, first)
    IN  IF e < first THEN ParseFail
        ELSE ParseOk(JInt((IF neg THEN -1 ELSE 1) * digits_value(s, first, e)),
                     e + 1)

starts_at(s, i, word) ==
    i + Len(word) - 1 <= Len(s) /\ SubSeq(s, i, i + Len(word) - 1) = word

RECURSIVE parse_value(_, _), parse_elements(_, _, _), parse_members(_, _, _, _)

\* The value starting at i (whitespace already skipped).
parse_value(s, i) ==
    IF i > Len(s) THEN ParseFail
    ELSE IF s[i] = "\"" THEN parse_string(s, i)
    ELSE IF s[i] = "{"
         THEN LET j == skip_ws(s, i + 1)
              IN  IF j <= Len(s) /\ s[j] = "}"
                  THEN ParseOk(JObj(<<>>, <<>>), j + 1)
                  ELSE parse_members(s, j, <<>>, <<>>)
    ELSE IF s[i] = "["
         THEN LET j == skip_ws(s, i + 1)
              IN  IF j <= Len(s) /\ s[j] = "]"
                  THEN ParseOk(JArr(<<>>), j + 1)
                  ELSE parse_elements(s, j, <<>>)
    ELSE IF s[i] = "-" \/ s[i] \in DigitChars THEN parse_int(s, i)
    ELSE IF starts_at(s, i, <<"t", "r", "u", "e">>) THEN ParseOk(JBool(TRUE), i + 4)
    ELSE IF starts_at(s, i, <<"f", "a", "l", "s", "e">>) THEN ParseOk(JBool(FALSE), i + 5)
    ELSE IF starts_at(s, i, <<"n", "u", "l", "l">>) THEN ParseOk(JNull, i + 4)
    ELSE ParseFail

\* The elements of an array from i on, items those read so far.
parse_elements(s, i, items) ==
    LET v == parse_value(s, i)
    IN  IF ~v.ok THEN ParseFail
        ELSE LET e == skip_ws(s, v.pos)
             IN  IF e > Len(s) THEN ParseFail
                 ELSE IF s[e] = "]" THEN ParseOk(JArr(Append(items, v.val)), e + 1)
                 ELSE IF s[e] = ","
                      THEN parse_elements(s, skip_ws(s, e + 1), Append(items, v.val))
                      ELSE ParseFail

\* The members of an object from i on, keys and items those read so far.
parse_members(s, i, keys, items) ==
    IF i > Len(s) \/ s[i] # "\"" THEN ParseFail
    ELSE LET k == parse_string(s, i)
         IN  IF ~k.ok THEN ParseFail
             ELSE LET c == skip_ws(s, k.pos)
                  IN  IF c > Len(s) \/ s[c] # ":" THEN ParseFail
                      ELSE LET v == parse_value(s, skip_ws(s, c + 1))
                           IN  IF ~v.ok THEN ParseFail
                               ELSE LET e  == skip_ws(s, v.pos)
                                        ks == Append(keys, k.val.s)
                                        vs == Append(items, v.val)
                                    IN  IF e > Len(s) THEN ParseFail
                                        ELSE IF s[e] = "}"
                                             THEN ParseOk(JObj(ks, vs), e + 1)
                                        ELSE IF s[e] = ","
                                             THEN parse_members(s, skip_ws(s, e + 1), ks, vs)
                                             ELSE ParseFail

\* json.loads(text): one value, whitespace around it, nothing after it.
json_loads(s) ==
    LET v == parse_value(s, skip_ws(s, 1))
    IN  IF v.ok /\ skip_ws(s, v.pos) = Len(s) + 1 THEN v ELSE ParseFail

\* dict.get(key): the last member with that key, as a dict keeps it.
json_get(obj, key) ==
    LET at == {i \in 1..Len(obj.keys) : obj.keys[i] = key}
    IN  IF at = {} THEN JAbsent
        ELSE obj.items[CHOOSE i \in at : \A j \in at : j <= i]

---------------------------------------------------------------------------
(* TutorTurn.model_validate(data): pydantic's validation of a parsed JSON  *)
(* value against the TutorTurn and CorrectionItem models, in its default   *)
(* (lax) mode. An error is [field, index, sub, type]: the field of         *)
(* TutorTurn, and for an error inside corrections the item's index (from   *)
(* 1) and the item's field.                                                *)

\* ErrorType = Literal["grammar", ..., "other"]
ErrorType ==
    {<<"g", "r", "a", "m", "m", "a", "r">>, <<"v", "o", "c", "a", "b", "u", "l", "a", "r", "y">>, <<"p", "o", "l", "i", "t", "e", "n", "e", "s", "s">>, <<"p", "a", "r", "t", "i", "c", "l", "e">>, <<"t", "e", "n", "s", "e">>,
     <<"k", "a", "n", "j", "i", "_", "k", "a", "n", "a">>, <<"n", "a", "t", "u", "r", "a", "l", "n", "e", "s", "s">>, <<"o", "t", "h", "e", "r">>}

\* The str fields of CorrectionItem, in declaration order, and error_type.
K_original == <<"o", "r", "i", "g", "i", "n", "a", "l">>

K_corrected == <<"c", "o", "r", "r", "e", "c", "t", "e", "d">>

K_error_type == <<"e", "r", "r", "o", "r", "_", "t", "y", "p", "e">>

K_reason_zh == <<"r", "e", "a", "s", "o", "n", "_", "z", "h">>

K_reason_ja == <<"r", "e", "a", "s", "o", "n", "_", "j", "a">>

K_tip == <<"t", "i", "p">>

\* The fields of TutorTurn.
K_reply_ja == <<"r", "e", "p", "l", "y", "_", "j", "a">>

K_corrected_sentence_ja == <<"c", "o", "r", "r", "e", "c", "t", "e", "d", "_", "s", "e", "n", "t", "e", "n", "c", "e", "_", "j", "a">>

K_more_natural_ja == <<"m", "o", "r", "e", "_", "n", "a", "t", "u", "r", "a", "l", "_", "j", "a">>

K_corrections == <<"c", "o", "r", "r", "e", "c", "t", "i", "o", "n", "s">>

K_mini_lesson_ja == <<"m", "i", "n", "i", "_", "l", "e", "s", "s", "o", "n", "_", "j", "a">>

K_next_question_ja == <<"n", "e", "x", "t", "_", "q", "u", "e", "s", "t", "i", "o", "n", "_", "j", "a">>

K_fluency_score == <<"f", "l", "u", "e", "n", "c", "y", "_", "s", "c", "o", "r", "e">>

\* fluency_score: int = Field(..., ge=0, le=100)
ScoreMin == 0

ScoreMax == 100

Err(field, index, sub, type) ==
    [field |-> field, index |-> index, sub |-> sub, type |-> type]

\* A required str field: absent is "missing", another type "string_type".
str_errors(v, field, index, sub) ==
    IF v.t = "absent" THEN <<Err(field, index, sub, "missing")>>
    ELSE IF v.t # "str" THEN <<Err(field, index, sub, "string_type")>>
    ELSE <<>>

\* error_type: ErrorType, a required Literal.
literal_errors(v, field, index, sub) ==
    IF v.t = "absent" THEN <<Err(field, index, sub, "missing")>>
    ELSE IF v.t # "str" \/ v.s \notin ErrorType
         THEN <<Err(field, index, sub, "literal_error")>>
         ELSE <<>>

\* Whether a str is an integer literal int field validation parses.
is_int_literal(s) ==
    LET first == IF s # <<>> /\ s[1] = "-" THEN 2 ELSE 1
    IN  /\ first <= Len(s)
        /\ \A i \in first..Len(s) : s[i] \in DigitChars

int_literal_value(s) ==
    IF s[1] = "-" THEN -digits_value(s, 2, Len(s)) ELSE digits_value(s, 1, Len(s))

\* Whether lax validation turns the value into an int: an int, a bool, or a
\* str holding an integer literal.
int_coercible(v) ==
    \/ v.t \in {"int", "bool"}
    \/ v.t = "str" /\ is_int_literal(v.s)

int_value(v) == IF v.t = "str" THEN int_literal_value(v.s) ELSE v.n

\* ge=0, le=100
range_errors(n, field) ==
    IF n < ScoreMin THEN <<Err(field, 0, "", "greater_than_equal")>>
    ELSE IF n > ScoreMax THEN <<Err(field, 0, "", "less_than_equal")>>
    ELSE <<>>

\* fluency_score: a required int in [0, 100].
score_errors(v, field) ==
    IF v.t = "absent" THEN <<Err(field, 0, "", "missing")>>
    ELSE IF ~int_coercible(v)
         THEN <<Err(field, 0, "",
                    IF v.t = "str" THEN "int_parsing" ELSE "int_type")>>
         ELSE range_errors(int_value(v), field)

\* One element of corrections against CorrectionItem, fields in declaration
\* order.
item_errors(v, index) ==
    IF v.t # "obj" THEN <<Err("corrections", index, "", "model_type")>>
    ELSE str_errors(json_get(v, K_original), "corrections", index, "original")
      \o str_errors(json_get(v, K_corrected), "corrections", index, "corrected")
      \o literal_errors(json_get(v, K_error_type), "corrections", index, "error_type")
      \o str_errors(json_get(v, K_reason_zh), "corrections", index, "reason_zh")
      \o str_errors(json_get(v, K_reason_ja), "corrections", index, "reason_ja")
      \o str_errors(json_get(v, K_tip), "corrections", index, "tip")

RECURSIVE items_errors(_, _)
items_errors(items, index) ==
    IF index > Len(items) THEN <<>>
    ELSE item_errors(items[index], index) \o items_errors(items, index + 1)

\* corrections: List[CorrectionItem] = Field(default_factory=list)
corrections_errors(v) ==
    IF v.t = "absent" THEN <<>>
    ELSE IF v.t # "arr" THEN <<Err("corrections", 0, "", "list_type")>>
    ELSE items_errors(v.items, 1)

\* Validation that raises at the first error found.
first_error_only(errors) == SubSeq(errors, 1, 1)

\* pydantic collects the errors of every field into one ValidationError.
collect_errors(errors) == errors

\* Every error of data against TutorTurn, fields in declaration order.
turn_errors(d) ==
    IF d.t # "obj" THEN <<Err("", 0, "", "model_type")>>
    ELSE collect_errors(
           str_errors(json_get(d, K_reply_ja), "reply_ja", 0, "")
        \o str_errors(json_get(d, K_corrected_sentence_ja), "corrected_sentence_ja", 0, "")
        \o str_errors(json_get(d, K_more_natural_ja), "more_natural_ja", 0, "")
        \o corrections_errors(json_get(d, K_corrections))
        \o str_errors(json_get(d, K_mini_lesson_ja), "mini_lesson_ja", 0, "")
        \o str_errors(json_get(d, K_next_question_ja), "next_question_ja", 0, "")
        \o score_errors(json_get(d, K_fluency_score), "fluency_score"))

\* The CorrectionItem built from a valid element of corrections.
correction_item(v) ==
    [original   |-> json_get(v, K_original).s,
     corrected  |-> json_get(v, K_corrected).s,
     error_type |-> json_get(v, K_error_type).s,
     reason_zh  |-> json_get(v, K_reason_zh).s,
     reason_ja  |-> json_get(v, K_reason_ja).s,
     tip        |-> json_get(v, K_tip).s]

\* The TutorTurn built from valid data; an absent corrections is the default
\* list().
tutor_turn(d) ==
    LET c == json_get(d, K_corrections)
    IN  [reply_ja              |-> json_get(d, K_reply_ja).s,
         corrected_sentence_ja |-> json_get(d, K_corrected_sentence_ja).s,
         more_natural_ja       |-> json_get(d, K_more_natural_ja).s,
         corrections           |-> [i \in 1..Len(c.items) |-> correction_item(c.items[i])],
         mini_lesson_ja        |-> json_get(d, K_mini_lesson_ja).s,
         next_question_ja      |-> json_get(d, K_next_question_ja).s,
         fluency_score         |-> int_value(json_get(d, K_fluency_score))]

\* No TutorTurn: what a failed validation leaves in place of a result.
NoTurn ==
    [reply_ja |-> <<>>, corrected_sentence_ja |-> <<>>, more_natural_ja |-> <<>>,
     corrections |-> <<>>, mini_lesson_ja |-> <<>>, next_question_ja |-> <<>>,
     fluency_score |-> -1]

\* TutorTurn.model_validate(data): the turn, or a ValidationError holding
\* every error.
model_validate(d) ==
    LET errors == turn_errors(d)
    IN  IF errors = <<>>
        THEN [ok |-> TRUE, turn |-> tutor_turn(d), errors |-> <<>>]
        ELSE [ok |-> FALSE, turn |-> NoTurn, errors |-> errors]

---------------------------------------------------------------------------
(* build_system_prompt and call_model.                                     *)

\* e["text"][:1200]
KbExcerptLimit == 1200

\* kb_topk = st.slider(..., 1, 4, 3)
KbTopkMin == 1

KbTopkMax == 4

\* messages += st.session_state.history[-10:]
HistoryWindow == 10

\* The fixed text of the prompt template, in three pieces around the two
\* interpolated values ({kb_refs} and the cited ids); the settings it also
\* interpolates (level, tone, topic, strictness) are part of the pieces.
PromptHead == "<prompt: role, settings, KB heading>"

PromptRules == "<prompt: hard rules, cite>"

PromptTail == "<prompt: output only the TutorTurn JSON object>"

\* The marker cited when no entry is selected (the prompt's literal for
\* "none").
NoKbMarker == "<nashi>"

RECURSIVE kb_refs_of(_)
kb_refs_of(selected) ==
    IF selected = <<>> THEN <<>>
    ELSE LET t == SubSeq(Head(selected).text, 1,
                         Min(KbExcerptLimit, Len(Head(selected).text)))
         IN  IF Len(selected) = 1 THEN t
             ELSE t \o <<"\n", "\n">> \o kb_refs_of(Tail(selected))

build_system_prompt(entries, user_text, use_kb, kb_topk) ==
    LET selected == IF use_kb THEN select_kb(entries, user_text, kb_topk) ELSE <<>>
        kb_ids   == [i \in 1..Len(selected) |-> selected[i].id]
    IN  <<PromptHead>> \o kb_refs_of(selected) \o <<PromptRules>>
        \o (IF kb_ids # <<>> THEN join(<<",", " ">>, kb_ids) ELSE <<NoKbMarker>>)
        \o <<PromptTail>>

Message(role, content) == [role |-> role, content |-> content]

\* history[:10]: the first entries instead of the last.
history_window_first(h) == SubSeq(h, 1, Min(HistoryWindow, Len(h)))

\* history[-9:]: a window one entry short.
history_window_short(h) == SubSeq(h, Max(1, Len(h) - (HistoryWindow - 1) + 1), Len(h))

\* st.session_state.history[-10:]
history_window(h) == SubSeq(h, Max(1, Len(h) - HistoryWindow + 1), Len(h))

\* messages = [system] + history[-10:] + [user]
build_messages(sys_prompt, h, user_text) ==
    <<Message("system", sys_prompt)>> \o history_window(h)
    \o <<Message("user", user_text)>>

\* What client.responses.create does: it raises (connectivity, auth, quota,
\* an unknown model name), or returns a response whose output_text is text.
ModelReply(raises, output_text) == [raises |-> raises, output_text |-> output_text]

\* The rest of call_model, from the response on: normalise, json.loads,
\* TutorTurn.model_validate. raised is the class of the exception that ends
\* the call ("none": it returns result); validated tells whether
\* model_validate was reached.
interpret_reply(reply) ==
    IF reply.raises
    THEN [raised |-> "APIError", validated |-> FALSE, result |-> NoTurn,
          errors |-> <<>>]
    ELSE LET parsed == json_loads(normalize(reply.output_text))
         IN  IF ~parsed.ok
             THEN [raised |-> "JSONDecodeError", validated |-> FALSE,
                   result |-> NoTurn, errors |-> <<>>]
             ELSE LET v == model_validate(parsed.val)
                  IN  [raised    |-> IF v.ok THEN "none" ELSE "ValidationError",
                       validated |-> TRUE,
                       result    |-> v.turn,
                       errors    |-> v.errors]

\* call_model(user_text) with the session's history h, when the model
\* service answers with a reply: sys_prompt is build_system_prompt(user_text),
\* interpreted what the rest of the call makes of the reply.
call_model(sys_prompt, h, user_text, interpreted) ==
    [messages  |-> build_messages(sys_prompt, h, user_text),
     raised    |-> interpreted.raised,
     validated |-> interpreted.validated,
     result    |-> interpreted.result,
     errors    |-> interpreted.errors]

---------------------------------------------------------------------------
(* The script's handlers: clear, and send with its try/except.             *)

\* The user entry written before the model is called, so that it stays
\* when the call fails.
send_history_eager(h, user_text, r) ==
    IF r.raised = "none"
    THEN h \o <<Message("user", user_text), Message("assistant", r.result.reply_ja)>>
    ELSE Append(h, Message("user", user_text))

\* The user entry written with the trimmed text.
send_history_stripped(h, user_text, r) ==
    IF r.raised = "none"
    THEN h \o <<Message("user", strip(user_text)),
                Message("assistant", r.result.reply_ja)>>
    ELSE h

\* The history cut to its window after the two entries are written.
send_history_trimmed(h, user_text, r) ==
    IF r.raised = "none"
    THEN history_window(
             h \o <<Message("user", user_text),
                    Message("assistant", r.result.reply_ja)>>)
    ELSE h

\* history.append(user entry); history.append(assistant entry), reached only
\* when call_model returned.
send_history(h, user_text, r) ==
    IF r.raised = "none"
    THEN h \o <<Message("user", user_text), Message("assistant", r.result.reply_ja)>>
    ELSE h

Mistake(c) == [type |-> c.error_type, original |-> c.original, corrected |-> c.corrected]

\* for c in result.corrections: mistakes.append({...})
send_mistakes(m, r) ==
    IF r.raised = "none"
    THEN m \o [i \in 1..Len(r.result.corrections) |-> Mistake(r.result.corrections[i])]
    ELSE m

\* The st.error message of the except clause that catches the exception:
\* "format" (the response does not have the expected structure) for
\* pydantic's ValidationError, "failed" (check API key / network / model
\* name) for every other Exception.
handler_message(raised) ==
    IF raised = "none" THEN "none"
    ELSE IF raised = "ValidationError" THEN "format"
    ELSE "failed"

\* A run of the script that handles no button.
Idle ==
    [action |-> "none", user_text |-> <<>>, called |-> FALSE, messages |-> <<>>,
     raised |-> "none", validated |-> FALSE, result |-> NoTurn,
     message |-> "none", rendered |-> FALSE]

---------------------------------------------------------------------------
(* The session: the script's runs over st.session_state.                   *)

\* The number of successful exchanges a session is followed for.
MaxExchanges == 6

\* The session's grammar_kb.md.
SessionKb == <<"#", "#", " ", "[", "K", "B", "1", "]", " ", "w", "o", "\n", "-", " ", "t", "r", "i", "g", "g", "e", "r", "s", ":", " ", "a", "\n", "n", "o", "t", "e", "\n">>

\* What the user may have typed when a button is pressed.
UserTexts == {<<>>, <<" ">>, <<" ", "a">>}

\* A TutorTurn JSON object with the given reply, corrections member (with
\* its leading comma, or nothing) and score.
turn_json(reply, corrections, score) ==
    <<"{", "\"", "r", "e", "p", "l", "y", "_", "j", "a", "\"", ":", " ", "\"">> \o reply
    \o <<"\"", ",", " ", "\"", "c", "o", "r", "r", "e", "c", "t", "e", "d", "_", "s", "e", "n", "t", "e", "n", "c", "e", "_", "j", "a", "\"", ":", " ", "\"", "c", "\"", ",", " ", "\"", "m", "o", "r", "e", "_", "n", "a", "t", "u", "r", "a", "l", "_", "j", "a", "\"", ":", " ", "\"", "m", "\"">>
    \o corrections
    \o <<",", " ", "\"", "m", "i", "n", "i", "_", "l", "e", "s", "s", "o", "n", "_", "j", "a", "\"", ":", " ", "\"", "l", "\"", ",", " ", "\"", "n", "e", "x", "t", "_", "q", "u", "e", "s", "t", "i", "o", "n", "_", "j", "a", "\"", ":", " ", "\"", "q", "\"", ",", " ", "\"", "f", "l", "u", "e", "n", "c", "y", "_", "s", "c", "o", "r", "e", "\"", ":", " ">>
    \o score \o <<"}">>

OneCorrection ==
    <<",", " ", "\"", "c", "o", "r", "r", "e", "c", "t", "i", "o", "n", "s", "\"", ":", " ", "[", "{", "\"", "o", "r", "i", "g", "i", "n", "a", "l", "\"", ":", " ", "\"", "o", "\"", ",", " ", "\"", "c", "o", "r", "r", "e", "c", "t", "e", "d", "\"", ":", " ", "\"", "k", "\"", ",", " ", "\"", "e", "r", "r", "o", "r", "_", "t", "y", "p", "e", "\"", ":", " ", "\"", "p", "a", "r", "t", "i", "c", "l", "e", "\"", ",", " ", "\"", "r", "e", "a", "s", "o", "n", "_", "z", "h", "\"", ":", " ", "\"", "z", "\"", ",", " ", "\"", "r", "e", "a", "s", "o", "n", "_", "j", "a", "\"", ":", " ", "\"", "j", "\"", ",", " ", "\"", "t", "i", "p", "\"", ":", " ", "\"", "t", "\"", "}", "]">>

\* The texts the model service may return: a fenced valid turn, a bare valid
\* turn without corrections, prose, and a turn whose score is out of range.
ResponseTexts ==
    {Fence \o <<"j", "s", "o", "n", "\n">> \o turn_json(<<"h", "a", "i">>, OneCorrection, <<"8", "5">>) \o <<"\n">> \o Fence,
     turn_json(<<"e", "e">>, <<>>, <<"1", "0", "0">>) \o <<"\n">>,
     <<"s", "u", "m", "i", "m", "a", "s", "e", "n">>,
     turn_json(<<"h", "a", "i">>, OneCorrection, <<"1", "5", "0">>)}

ModelReplies ==
    {ModelReply(TRUE, <<>>)} \cup {ModelReply(FALSE, t) : t \in ResponseTexts}

\* kb_entries = parse_kb_entries(kb_text), worked out once at startup.
SessionEntries == parse_kb_entries(SessionKb)

\* build_system_prompt for each user text and each value of the use_kb
\* checkbox and the kb_topk slider, worked out once.
SystemPrompts ==
    [user_text \in UserTexts, use_kb \in BOOLEAN, kb_topk \in KbTopkMin..KbTopkMax |->
        build_system_prompt(SessionEntries, user_text, use_kb, kb_topk)]

\* What call_model makes of each reply, worked out once.
Interpreted == [reply \in ModelReplies |-> interpret_reply(reply)]

NoSelection == [query |-> <<>>, topk |-> 0, result |-> <<>>]

NoValidation == [ok |-> FALSE, turn |-> NoTurn, errors |-> <<>>]

\* The state after the script's first run: empty history and mistake log,
\* the knowledge base parsed.
Init ==
    /\ history = <<>>
    /\ mistakes = <<>>
    /\ last = Idle
    /\ kb_text = SessionKb
    /\ kb_entries = SessionEntries
    /\ selection = NoSelection
    /\ text = <<>>
    /\ normalized = <<>>
    /\ data = JNull
    /\ validated = NoValidation
    /\ pc = "session"

\* if clear: history = []; mistakes = []; st.rerun()
Clear ==
    /\ history' = <<>>
    /\ mistakes' = <<>>
    /\ last' = [Idle EXCEPT !.action = "clear"]
    /\ UNCHANGED <<kb_text, kb_entries, selection, text, normalized, data,
                   validated, pc>>

\* if send and user_text.strip(): try: ... except ...
Send(user_text, use_kb, kb_topk, reply) ==
    /\ IF strip(user_text) = <<>>
       THEN /\ last' = [Idle EXCEPT !.action = "send", !.user_text = user_text]
            /\ UNCHANGED <<history, mistakes>>
       ELSE LET r == call_model(SystemPrompts[user_text, use_kb, kb_topk], history,
                                 user_text, Interpreted[reply])
            IN  /\ Len(send_history(history, user_text, r)) <= 2 * MaxExchanges
                /\ history' = send_history(history, user_text, r)
                /\ mistakes' = send_mistakes(mistakes, r)
                /\ last' = [action    |-> "send",
                            user_text |-> user_text,
                            called    |-> TRUE,
                            messages  |-> r.messages,
                            raised    |-> r.raised,
                            validated |-> r.validated,
                            result    |-> r.result,
                            message   |-> handler_message(r.raised),
                            rendered  |-> r.raised = "none"]
    /\ UNCHANGED <<kb_text, kb_entries, selection, text, normalized, data,
                   validated, pc>>

Next ==
    \/ Clear
    \/ \E user_text \in UserTexts, use_kb \in BOOLEAN,
          kb_topk \in KbTopkMin..KbTopkMax, reply \in ModelReplies :
          Send(user_text, use_kb, kb_topk, reply)

Spec == Init /\ [][Next]_vars

---------------------------------------------------------------------------
(* The knowledge base functions over bounded documents and queries.        *)

\* The number of chunks a document is put together from.
MaxChunks == 4

\* The chunks: three entries with their triggers line (the second with a
\* trigger given twice, the third with an empty trigger token, trailing
\* blanks and a blank line), a blank line, a
\* triggers line ending in "\r\n", and a line that starts like a header but
\* has no "]" and no line end.
KbChunks ==
    {<<"#", "#", " ", "[", "K", "B", "1", "]", " ", "a", "\n", "-", " ", "t", "r", "i", "g", "g", "e", "r", "s", ":", " ", "x", ",", " ", "y", "\n">>,
     <<"#", "#", " ", "[", "K", "B", "2", "]", " ", "b", "\n", "-", " ", "t", "r", "i", "g", "g", "e", "r", "s", ":", " ", "y", ",", " ", "y", "\n">>,
     <<"#", "#", " ", "[", "K", "B", "3", "]", "c", " ", "\n", "-", " ", "t", "r", "i", "g", "g", "e", "r", "s", ":", " ", "x", ",", ",", "z", " ", "\n", " ", "\n">>,
     <<"\n">>,
     <<"-", " ", "t", "r", "i", "g", "g", "e", "r", "s", ":", " ", "z", "\r", "\n">>,
     <<"#", "#", " ", "[", "K", "B", "4", " ", "d">>}

KbDocs ==
    {concat(cs) : cs \in UNION {[1..n -> KbChunks] : n \in 0..MaxChunks}}

Queries == {<<"x", "y", " ">>, <<" ", "z">>, <<" ", "\n">>, <<"y", "x", "z">>}

InitKb ==
    /\ kb_text \in KbDocs
    /\ kb_entries = <<>>
    /\ selection = NoSelection
    /\ pc = "load"
    /\ history = <<>>
    /\ mistakes = <<>>
    /\ last = Idle
    /\ text = <<>>
    /\ normalized = <<>>
    /\ data = JNull
    /\ validated = NoValidation

\* kb_entries = parse_kb_entries(kb_text)
Parse ==
    /\ pc = "load"
    /\ kb_entries' = parse_kb_entries(kb_text)
    /\ pc' = "parsed"
    /\ UNCHANGED <<history, mistakes, last, kb_text, selection, text,
                   normalized, data, validated>>

\* select_kb(kb_entries, user_text, kb_topk)
Select(query, topk) ==
    /\ pc = "parsed"
    /\ selection' = [query |-> query, topk |-> topk,
                     result |-> select_kb(kb_entries, query, topk)]
    /\ pc' = "selected"
    /\ UNCHANGED <<history, mistakes, last, kb_text, kb_entries, text,
                   normalized, data, validated>>

NextKb ==
    \/ Parse
    \/ \E query \in Queries, topk \in KbTopkMin..KbTopkMax : Select(query, topk)

SpecKb == InitKb /\ [][NextKb]_vars

---------------------------------------------------------------------------
(* The normalisation over bounded response texts.                          *)

\* The number of pieces a response text is put together from.
MaxPieces == 4

TextPieces ==
    {Fence, JsonTag, <<"\n">>, <<" ">>, <<"{", "}">>, <<"{", "\"", "a", "\"", ":", " ", "\"", "j", "s", "o", "n", "\"", "}">>}

SampleTexts ==
    {concat(ps) : ps \in UNION {[1..n -> TextPieces] : n \in 0..MaxPieces}}

InitNormalize ==
    /\ text \in SampleTexts
    /\ normalized = <<>>
    /\ pc = "response"
    /\ history = <<>>
    /\ mistakes = <<>>
    /\ last = Idle
    /\ kb_text = <<>>
    /\ kb_entries = <<>>
    /\ selection = NoSelection
    /\ data = JNull
    /\ validated = NoValidation

\* text = resp.output_text.strip() and the fence handling
Normalize ==
    /\ pc = "response"
    /\ normalized' = normalize(text)
    /\ pc' = "normalized"
    /\ UNCHANGED <<history, mistakes, last, kb_text, kb_entries, selection,
                   text, data, validated>>

NextNormalize == Normalize

SpecNormalize == InitNormalize /\ [][NextNormalize]_vars

---------------------------------------------------------------------------
(* The validation over bounded parsed values.                              *)

GoodItem ==
    JObj(<<K_original, K_corrected, K_error_type, K_reason_zh, K_reason_ja, K_tip>>,
         <<JStr(<<"o">>), JStr(<<"k">>), JStr(<<"t", "e", "n", "s", "e">>), JStr(<<"z">>), JStr(<<"j">>), JStr(<<"t">>)>>)

\* An error_type outside the enumeration.
BadTypeItem ==
    JObj(<<K_original, K_corrected, K_error_type, K_reason_zh, K_reason_ja, K_tip>>,
         <<JStr(<<"o">>), JStr(<<"k">>), JStr(<<"s", "p", "e", "l", "l", "i", "n", "g">>), JStr(<<"z">>), JStr(<<"j">>), JStr(<<"t">>)>>)

\* No tip, and a number for reason_ja.
PartialItem ==
    JObj(<<K_original, K_corrected, K_error_type, K_reason_zh, K_reason_ja>>,
         <<JStr(<<"o">>), JStr(<<"k">>), JStr(<<"o", "t", "h", "e", "r">>), JStr(<<"z">>), JInt(7)>>)

StrSamples == {JAbsent, JStr(<<"x">>), JInt(1)}

CorrectionsSamples ==
    {JAbsent, JArr(<<>>), JArr(<<GoodItem>>), JArr(<<BadTypeItem>>),
     JArr(<<GoodItem, PartialItem>>), JArr(<<JInt(3)>>), JStr(<<"x">>)}

ScoreSamples ==
    {JAbsent, JInt(ScoreMin), JInt(ScoreMax), JInt(ScoreMin - 1),
     JInt(ScoreMax + 1), JStr(<<"8", "5">>), JStr(<<"a", "b", "c">>), JBool(TRUE), JNull}

\* The object holding the members whose value is not JAbsent.
RECURSIVE make_obj(_, _)
make_obj(keys, items) ==
    IF keys = <<>> THEN JObj(<<>>, <<>>)
    ELSE LET rest == make_obj(Tail(keys), Tail(items))
         IN  IF Head(items).t = "absent" THEN rest
             ELSE JObj(<<Head(keys)>> \o rest.keys, <<Head(items)>> \o rest.items)

DataSamples ==
    {make_obj(<<K_reply_ja, K_corrected_sentence_ja, K_more_natural_ja,
                K_corrections, K_mini_lesson_ja, K_next_question_ja,
                K_fluency_score>>,
              <<a, JStr(<<"c">>), JStr(<<"m">>), c, b, JStr(<<"q">>), s>>) :
        a \in StrSamples, b \in StrSamples, c \in CorrectionsSamples,
        s \in ScoreSamples}
    \cup {JArr(<<>>), JStr(<<"x">>), JNull}

InitValidate ==
    /\ data \in DataSamples
    /\ validated = NoValidation
    /\ pc = "data"
    /\ history = <<>>
    /\ mistakes = <<>>
    /\ last = Idle
    /\ kb_text = <<>>
    /\ kb_entries = <<>>
    /\ selection = NoSelection
    /\ text = <<>>
    /\ normalized = <<>>

\* TutorTurn.model_validate(data)
Validate ==
    /\ pc = "data"
    /\ validated' = model_validate(data)
    /\ pc' = "validated"
    /\ UNCHANGED <<history, mistakes, last, kb_text, kb_entries, selection,
                   text, normalized, data>>

NextValidate == Validate

SpecValidate == InitValidate /\ [][NextValidate]_vars

---------------------------------------------------------------------------
(* The properties checked of the session (specification Spec).             *)

IsPrefix(a, b) == Len(a) <= Len(b) /\ SubSeq(b, 1, Len(a)) = a

\* C1: an exchange that fails (the model call raises, the normalised text is
\* not valid JSON, or the parsed JSON fails TutorTurn validation) leaves the
\* history and the mistake log as they were; a send changes either of them
\* only when the exchange succeeds in full.
C1_FailedExchangeKeepsState ==
    [][/\ (last'.action = "send" /\ last'.called /\ last'.raised # "none")
              => (history' = history /\ mistakes' = mistakes)
       /\ (last'.action = "send" /\ (history' # history \/ mistakes' # mistakes))
              => (last'.called /\ last'.raised = "none" /\ last'.validated)
      ]_vars

\* A validation failure reported while the history and the mistake log hold
\* entries.
C1_Witness ==
    /\ last.action = "send"
    /\ last.raised = "ValidationError"
    /\ history # <<>>
    /\ mistakes # <<>>

\* C2: a successful exchange appends exactly two entries to the history, the
\* user entry holding the submitted text and then the assistant entry
\* holding the validated turn's reply, and leaves the earlier entries alone.
C2_SuccessAppendsUserThenAssistant ==
    [][(last'.action = "send" /\ last'.called /\ last'.raised = "none")
          => /\ Len(history') = Len(history) + 2
             /\ SubSeq(history', 1, Len(history)) = history
             /\ history'[Len(history) + 1] = Message("user", last'.user_text)
             /\ history'[Len(history) + 2]
                    = Message("assistant", last'.result.reply_ja)
      ]_vars

\* A successful exchange on a history that already holds entries, the user
\* text having blanks around it.
C2_Witness ==
    /\ last.action = "send"
    /\ last.raised = "none"
    /\ Len(history) >= 4
    /\ last.user_text # strip(last.user_text)
    /\ last.result.reply_ja # <<>>

\* C3: the message list sent to the model is the system instruction, then
\* the last min(10, Len(history)) entries of the history in their order,
\* then one user entry holding the user text; it has at most 12 messages,
\* the first is the only system message, and building it does not modify
\* the history.
C3_MessagesAreSystemWindowUser ==
    [][last'.called
          => LET m == last'.messages
                 k == Min(HistoryWindow, Len(history))
             IN  /\ Len(m) = k + 2
                 /\ Len(m) <= HistoryWindow + 2
                 /\ m[1].role = "system"
                 /\ m[1].content[1] = PromptHead
                 /\ \A i \in 2..Len(m) : m[i].role # "system"
                 /\ \A i \in 1..k : m[1 + i] = history[Len(history) - k + i]
                 /\ m[Len(m)] = Message("user", last'.user_text)
                 /\ IsPrefix(history, history')
      ]_vars

\* A call made (and failed, so that the history is the one it was made on)
\* with a history longer than the window.
C3_Witness ==
    /\ last.called
    /\ last.raised # "none"
    /\ Len(history) > HistoryWindow
    /\ Len(last.messages) = HistoryWindow + 2

\* C7: a response that is not valid JSON after fence stripping is reported
\* before validation is attempted, through an outcome that differs from the
\* one reported for a validation failure and from the one reported for a
\* failure of the model service call.
C7_MalformedReportedDistinctly ==
    last.raised = "JSONDecodeError"
        => /\ ~last.validated
           /\ last.message # handler_message("ValidationError")
           /\ last.message # handler_message("APIError")

\* C9 as stated: the history and the mistake log are append-only over every
\* action of the session, clear included.
C9_AppendOnlyAlways ==
    [][IsPrefix(history, history') /\ IsPrefix(mistakes, mistakes')]_vars

\* C9, amended: every send, whatever its outcome, leaves the history and the
\* mistake log extended or unchanged; clear, the only action that removes
\* entries, empties both.
C9_AppendOnlyBetweenClears ==
    [][IF last'.action = "clear"
       THEN history' = <<>> /\ mistakes' = <<>>
       ELSE IsPrefix(history, history') /\ IsPrefix(mistakes, mistakes')
      ]_vars

\* A successful send on a history and a mistake log that hold entries.
C9_Witness ==
    /\ last.action = "send"
    /\ last.raised = "none"
    /\ Len(history) > HistoryWindow
    /\ Len(mistakes) >= 2

\* The roles of h alternate user, assistant, ..., starting with user, and h
\* has even length.
Alternating(h) ==
    /\ Len(h) % 2 = 0
    /\ \A i \in 1..Len(h) :
          h[i].role = IF i % 2 = 1 THEN "user" ELSE "assistant"

\* C10: in every reachable state the history has even length and its roles
\* alternate user, assistant, ... starting with user; the window passed to
\* the model starts with a user entry and ends with an assistant entry, or is
\* empty; and a send whose input is blank after trimming issues no model call
\* and changes nothing.
C10_AlternatingHistory ==
    /\ [](/\ Alternating(history)
          /\ last.called
                => LET w == SubSeq(last.messages, 2, Len(last.messages) - 1)
                   IN  w = <<>> \/ (w[1].role = "user" /\ w[Len(w)].role = "assistant"))
    /\ [][(last'.action = "send" /\ strip(last'.user_text) = <<>>)
             => (~last'.called /\ last'.messages = <<>>
                 /\ history' = history /\ mistakes' = mistakes)
         ]_vars

\* A blank send on a history longer than the window.
C10_Witness ==
    /\ last.action = "send"
    /\ ~last.called
    /\ last.user_text # <<>>
    /\ Len(history) > HistoryWindow

---------------------------------------------------------------------------
(* The properties checked of the knowledge base (specification SpecKb).    *)

\* The number of triggers of e that are non-empty substrings of q.
Hits(e, q) ==
    Cardinality({i \in 1..Len(e.triggers) :
                    e.triggers[i] # <<>> /\ contains(q, e.triggers[i])})

\* What C4 says select returns: the first topk of the entries with a hit,
\* by score descending and document order among equal scores.
SelectsByScore(entries, query, topk, result) ==
    LET q == strip(query)
        score(i) == 3 * Hits(entries[i], q)
        M == {i \in 1..Len(entries) : score(i) > 0}
        before(j, i) == score(j) > score(i) \/ (score(j) = score(i) /\ j < i)
        rank(i) == Cardinality({j \in M : before(j, i)})
    IN  /\ Len(result) = Min(topk, Cardinality(M))
        /\ \A k \in 1..Len(result) :
              \E i \in M : rank(i) = k - 1 /\ result[k] = entries[i]

\* C4: select returns the first topK of the entries having a non-empty
\* trigger that is a substring of the trimmed query, by score (3 x the number
\* of such triggers) descending, equal scores in document order; so it has at
\* most topK entries, none without a matching trigger, and is empty for a
\* blank query or an empty entry list.
C4_SelectTopKByScoreStable ==
    pc = "selected"
        => /\ SelectsByScore(kb_entries, selection.query, selection.topk,
                             selection.result)
           /\ Len(selection.result) <= selection.topk
           /\ \A k \in 1..Len(selection.result) :
                 Hits(selection.result[k], strip(selection.query)) > 0
           /\ (strip(selection.query) = <<>> \/ kb_entries = <<>>)
                 => selection.result = <<>>

\* A selection cut to topk, in which a later entry of the document comes
\* first by score and two entries of equal score follow in document order.
C4_Witness ==
    /\ pc = "selected"
    /\ Len(kb_entries) > selection.topk
    /\ Len(selection.result) = selection.topk
    /\ selection.topk >= 3
    /\ selection.result[1] # kb_entries[1]
    /\ Hits(selection.result[2], strip(selection.query))
          = Hits(selection.result[3], strip(selection.query))
    /\ selection.result[2] # selection.result[3]

\* The indices of the header lines among the lines of a document.
HeaderLines(lines) == {i \in 1..Len(lines) : is_header(lines[i])}

\* The lines of the block the header line i opens: up to the next header
\* line, or the end of the document.
Block(lines, H, i) ==
    LET later == {j \in H : j > i}
    IN  SubSeq(lines, i, IF later = {} THEN Len(lines) ELSE least(later) - 1)

\* The k-th header line.
HeaderLine(H, k) == CHOOSE i \in H : Cardinality({j \in H : j < i}) = k - 1

\* C5 as stated: the entries are the blocks of the document in document
\* order, and each entry's text is its block verbatim, line for line.
C5_TextIsVerbatimBlock ==
    pc = "parsed"
        => LET lines == splitlines(kb_text)
               H     == HeaderLines(lines)
           IN  /\ Len(kb_entries) = Cardinality(H)
               /\ \A k \in 1..Len(kb_entries) :
                     kb_entries[k].text
                        = join(<<"\n">>, Block(lines, H, HeaderLine(H, k)))

\* C5, amended: the entries are the blocks of the document in document
\* order, and each entry's text is the lines of its block joined by "\n",
\* with the whitespace at both ends removed.
C5_TextIsTrimmedBlock ==
    pc = "parsed"
        => LET lines == splitlines(kb_text)
               H     == HeaderLines(lines)
           IN  /\ Len(kb_entries) = Cardinality(H)
               /\ \A k \in 1..Len(kb_entries) :
                     /\ kb_entries[k].text_lines[1] = lines[HeaderLine(H, k)]
                     /\ kb_entries[k].text
                           = strip(join(<<"\n">>, Block(lines, H, HeaderLine(H, k))))

\* A parsed document of several entries, one of them with blank lines or
\* blanks at the end of its block.
C5_Witness ==
    /\ pc = "parsed"
    /\ Len(kb_entries) >= 2
    /\ LET lines == splitlines(kb_text)
           H     == HeaderLines(lines)
       IN  \E k \in 1..Len(kb_entries) :
              kb_entries[k].text # join(<<"\n">>, Block(lines, H, HeaderLine(H, k)))

---------------------------------------------------------------------------
(* The property checked of the normalisation (specification SpecNormalize). *)

\* The block without the whitespace at its start.
LStrip(block) ==
    LET keep == {i \in 1..Len(block) : block[i] \notin Whitespace}
    IN  IF keep = {} THEN <<>> ELSE SubSeq(block, least(keep), Len(block))

\* The block with a leading json tag removed.
DropLeadingTag(block) ==
    IF startswith(LStrip(block), JsonTag)
    THEN SubSeq(LStrip(block), Len(JsonTag) + 1, Len(LStrip(block)))
    ELSE block

\* C6: when the trimmed response text begins with a fence, normalisation
\* yields the first fenced block with only a leading json tag removed and
\* the surrounding whitespace trimmed, every later "json" preserved; when it
\* does not, normalisation yields the trimmed text.
C6_OnlyLeadingTagRemoved ==
    pc = "normalized"
        => LET t == strip(text)
           IN  IF startswith(t, Fence)
               THEN normalized = strip(DropLeadingTag(split(t, Fence)[2]))
               ELSE normalized = t

---------------------------------------------------------------------------
(* The properties checked of the validation (specification SpecValidate).  *)

\* The required str fields of TutorTurn, by name and by JSON key.
TurnStrFields ==
    {[name |-> "reply_ja", key |-> K_reply_ja],
     [name |-> "corrected_sentence_ja", key |-> K_corrected_sentence_ja],
     [name |-> "more_natural_ja", key |-> K_more_natural_ja],
     [name |-> "mini_lesson_ja", key |-> K_mini_lesson_ja],
     [name |-> "next_question_ja", key |-> K_next_question_ja]}

\* The required str fields of CorrectionItem.
ItemStrFields ==
    {[name |-> "original", key |-> K_original],
     [name |-> "corrected", key |-> K_corrected],
     [name |-> "reason_zh", key |-> K_reason_zh],
     [name |-> "reason_ja", key |-> K_reason_ja],
     [name |-> "tip", key |-> K_tip]}

IsStr(obj, key) == json_get(obj, key).t = "str"

\* The names of the fields of a correction that violate CorrectionItem.
ItemViolations(v) ==
    {f.name : f \in {g \in ItemStrFields : ~IsStr(v, g.key)}}
    \cup (IF IsStr(v, K_error_type) /\ json_get(v, K_error_type).s \in ErrorType
          THEN {} ELSE {"error_type"})

ItemOk(v) == v.t = "obj" /\ ItemViolations(v) = {}

\* corrections present, a list, every item valid.
CorrectionsOkStrict(d) ==
    LET c == json_get(d, K_corrections)
    IN  c.t = "arr" /\ \A i \in 1..Len(c.items) : ItemOk(c.items[i])

\* fluency_score present, a JSON integer in [0, 100].
ScoreOkStrict(d) ==
    LET s == json_get(d, K_fluency_score)
    IN  s.t = "int" /\ 0 <= s.n /\ s.n <= 100

\* fluency_score present and an integer in [0, 100], or a value the default
\* (lax) conversion turns into one: a boolean, a str holding an integer
\* literal.
ScoreOkLax(d) ==
    LET s == json_get(d, K_fluency_score)
    IN  \/ s.t \in {"int", "bool"} /\ 0 <= s.n /\ s.n <= 100
        \/ /\ s.t = "str"
           /\ is_int_literal(s.s)
           /\ 0 <= int_literal_value(s.s)
           /\ int_literal_value(s.s) <= 100

\* C8 as stated: validate returns a TutorTurn if and only if every field is
\* present with the required type, fluency_score is an integer in [0, 100]
\* and every correction is valid.
C8_AcceptsIffAllFieldsPresent ==
    pc = "validated"
        => (validated.ok
               <=> /\ data.t = "obj"
                   /\ \A f \in TurnStrFields : IsStr(data, f.key)
                   /\ CorrectionsOkStrict(data)
                   /\ ScoreOkStrict(data))

\* The fields of TutorTurn that data violates.
TurnViolations(d) ==
    {f.name : f \in {g \in TurnStrFields : ~IsStr(d, g.key)}}
    \cup (IF json_get(d, K_corrections).t = "absent" \/ CorrectionsOkStrict(d)
          THEN {} ELSE {"corrections"})
    \cup (IF ScoreOkLax(d) THEN {} ELSE {"fluency_score"})

\* C8, amended: validate returns a TutorTurn if and only if data is an object
\* whose str fields are all present as strings, whose fluency_score is
\* present and is (or converts to) an integer in [0, 100], and whose
\* corrections is absent (then the empty list) or a list of valid
\* corrections; otherwise no TutorTurn is produced and the failure reports
\* every violated field, and in corrections every violated field of every
\* item.
C8_AcceptsIffRequiredFieldsValid ==
    pc = "validated"
        => /\ validated.ok <=> (data.t = "obj" /\ TurnViolations(data) = {})
           /\ validated.ok
                 => /\ validated.errors = <<>>
                    /\ validated.turn.reply_ja = json_get(data, K_reply_ja).s
                    /\ Len(validated.turn.corrections)
                          = Len(json_get(data, K_corrections).items)
                    /\ validated.turn.fluency_score \in 0..100
           /\ ~validated.ok
                 => /\ validated.turn = NoTurn
                    /\ validated.errors # <<>>
                    /\ data.t = "obj"
                          => /\ {validated.errors[i].field :
                                    i \in 1..Len(validated.errors)}
                                 = TurnViolations(data)
                             /\ LET c == json_get(data, K_corrections)
                                IN  c.t = "arr"
                                      => \A k \in 1..Len(c.items) :
                                            c.items[k].t = "obj"
                                              => {e.sub : e \in
                                                     {validated.errors[i] :
                                                         i \in {j \in 1..Len(validated.errors) :
                                                                  /\ validated.errors[j].field = "corrections"
                                                                  /\ validated.errors[j].index = k}}}
                                                  = ItemViolations(c.items[k])

\* A rejection that reports violations of several fields, one of them inside
\* a correction.
C8_Witness ==
    /\ pc = "validated"
    /\ ~validated.ok
    /\ Cardinality({validated.errors[i].field : i \in 1..Len(validated.errors)}) >= 3
    /\ \E i \in 1..Len(validated.errors) : validated.errors[i].index > 0

===========================================================================
